---- MODULE Spec2Model ----
(***************************************************************************)
(* Model of bin/index.js (minify-modules): the orchestrator                *)
(* deleteAndCompress, the recursive walk processDirectory / processFile,   *)
(* the two compressors and the statistics record.                          *)
(*                                                                         *)
(* A file name is the sequence of its tokens: "." is the dot character,    *)
(* "/" the path separator, every other token a non-empty run of characters *)
(* holding neither.  A text is the record of what the program can observe  *)
(* of it: its length, whether an import/export keyword occurs in it (and   *)
(* what follows the keyword), what Terser.minify returns for it and what   *)
(* JSON.parse / JSON.stringify return for it.  Lengths are in abstract     *)
(* units.                                                                  *)
(***************************************************************************)
EXTENDS Integers, Sequences, FiniteSets, TLC

\* ------------------------------------------------------------------ bounds
MaxLen == 2        \* longest text installed
MaxSize == 2       \* largest size stat reports for an installed file
MaxNameLen == 3    \* longest file name, in tokens, of the one-file packages

VARIABLES pc, fs, stack, stats, out, last, visited, dispatched, walkOps,
          summaries, failures, installed, written, inflight

vars == <<pc, fs, stack, stats, out, last, visited, dispatched, walkOps,
          summaries, failures, installed, written, inflight>>

\* --------------------------------------------------------------- constants
EXT_JS == <<".", "js">>
EXT_JSON == <<".", "json">>
EXT_MD == <<".", "md">>
EXT_TS == <<".", "ts">>

ESLINT_FILES ==
    { <<".", "eslintrc">>,
      <<".", "eslintrc", ".", "js">>,
      <<".", "eslintrc", ".", "json">>,
      <<".", "eslintrc", ".", "yml">>,
      <<".", "eslintrc", ".", "yaml">>,
      <<".", "eslintrc", ".", "cjs">>,
      <<".", "eslintrc", ".", "config", ".", "js">>,
      <<".", "eslintrc", ".", "config", ".", "cjs">>,
      <<".", "eslintrc", ".", "base", ".", "js">>,
      <<".", "eslintrc", ".", "base", ".", "cjs">>,
      <<".", "eslintrc", ".", "jsonc">>,
      <<".", "eslintrc", ".", "ymlc">>,
      <<".", "eslintrc", ".", "yamlc">>,
      <<".", "eslintrc", ".", "toml">>,
      <<".", "eslintrc", ".", "cjson">>,
      <<".", "eslintrc", ".", "json5">>,
      <<".", "eslintrc5">>,
      <<".", "eslintignore">>,
      <<".", "eslintcache">>,
      <<".", "eslintresult">> }

\* the stats object as created at load time
stats0 ==
    [ jsFilesCompressed |-> 0, jsonFilesCompressed |-> 0, deletedFiles |-> 0,
      spaceSaved |-> 0, spaceFreed |-> 0 ]

\* -------------------------------------------------------- names and paths

\* String.prototype.toLowerCase on one token, then on a name
LowerToken(t) ==
    CASE t = "ESLINTRC" -> "eslintrc"
      [] t = "JS" -> "js"
      [] t = "JSON" -> "json"
      [] t = "MD" -> "md"
      [] OTHER -> t

toLowerCase(name) == [i \in DOMAIN name |-> LowerToken(name[i])]

\* path.join(dir, name)
join(dir, name) == dir \o <<"/">> \o name

\* path.extname: the backward scan of the path.  i is the 0-based index
\* being looked at, s the scan's local variables.
RECURSIVE ExtScan(_, _, _)
ExtScan(p, i, s) ==
    IF i < 0 THEN s
    ELSE LET code == p[i + 1] IN
         IF code = "/"
         THEN IF ~s.matchedSlash
              THEN [s EXCEPT !.startPart = i + 1]
              ELSE ExtScan(p, i - 1, s)
         ELSE LET s1 == IF s.end = -1
                        THEN [s EXCEPT !.matchedSlash = FALSE, !.end = i + 1]
                        ELSE s
                  s2 == IF code = "."
                        THEN IF s1.startDot = -1
                             THEN [s1 EXCEPT !.startDot = i]
                             ELSE IF s1.preDotState # 1
                                  THEN [s1 EXCEPT !.preDotState = 1]
                                  ELSE s1
                        ELSE IF s1.startDot # -1
                             THEN [s1 EXCEPT !.preDotState = -1]
                             ELSE s1
              IN ExtScan(p, i - 1, s2)

extname(p) ==
    LET s == ExtScan(p, Len(p) - 1,
                     [ startDot |-> -1, startPart |-> 0, end |-> -1,
                       matchedSlash |-> TRUE, preDotState |-> 0 ])
    IN IF \/ s.startDot = -1
          \/ s.end = -1
          \/ s.preDotState = 0
          \/ /\ s.preDotState = 1
             /\ s.startDot = s.end - 1
             /\ s.startDot = s.startPart + 1
       THEN <<>>
       ELSE SubSeq(p, s.startDot + 1, s.end)

\* ------------------------------------------------------------------ texts

KW == {"none", "import ", "export ", "export{"}

Outcomes == -1 .. (MaxLen + 1)

\* len: text.length; kw: the import/export keyword in the text, with the
\* character after it; min: Terser.minify on the text (-1 throws, 0 no or
\* empty code, k code of length k); compact: JSON.stringify(JSON.parse(text))
\* (-1 throws, k a string of length k)
JsTexts ==
    { [len |-> l, kw |-> k, min |-> m, compact |-> -1] :
        l \in 1 .. MaxLen, k \in KW, m \in Outcomes }

JsonTexts ==
    { [len |-> l, kw |-> "none", min |-> -1, compact |-> c] :
        l \in 1 .. MaxLen, c \in {-1} \cup (1 .. (MaxLen + 1)) }

EmptyText == [len |-> 0, kw |-> "none", min |-> 0, compact |-> -1]

PlainText == [len |-> 2, kw |-> "none", min |-> 1, compact |-> 1]

\* the regular expression /import\s|export\s/ tested on the text
HasModuleKeyword_ImportOnly(text) == text.kw = "import "

HasModuleKeyword(text) == text.kw \in {"import ", "export "}

\* ------------------------------------------------------------ file system

NODE_MODULES == <<"node_modules">>

Dir(p, n) ==
    [ parent |-> p, name |-> n, isDir |-> TRUE, present |-> TRUE,
      size |-> 0, text |-> EmptyText ]

File(p, n, sz, t) ==
    [ parent |-> p, name |-> n, isDir |-> FALSE, present |-> TRUE,
      size |-> sz, text |-> t ]

\* the target directory does not exist
NoTarget == <<>>

README == <<"readme", ".", "md">>
INDEX_JS == <<"index", ".", "js">>
DATA_JSON == <<"data", ".", "json">>

\* node_modules/{pkg.js/{<a>, lib/{<b>}}, <c>, empty/}
DeepPackage(a, b, c) ==
    << Dir(0, NODE_MODULES),
       Dir(1, <<"pkg", ".", "js">>),
       a,
       Dir(2, <<"lib">>),
       b,
       c,
       Dir(1, <<"empty">>) >>

DeepPackages ==
    { DeepPackage(File(2, README, 1, PlainText), File(4, INDEX_JS, jt.len, jt),
                  File(1, DATA_JSON, nt.len, nt)) :
        jt \in JsTexts, nt \in JsonTexts }

\* node_modules/{readme.md, foo.ts} of every size
SizedPackages ==
    { << Dir(0, NODE_MODULES),
         File(1, README, a, PlainText),
         File(1, <<"foo", ".", "ts">>, b, PlainText) >> :
        a \in 0 .. MaxSize, b \in 0 .. MaxSize }

Tokens == {".", "md", "ts", "js", "json", "eslintrc", "ESLINTRC", "JS"}

NamesOfLen(n) == [1 .. n -> Tokens]

\* the names readdir can return: "." and ".." are never listed
AllNames ==
    (UNION {NamesOfLen(n) : n \in 1 .. MaxNameLen}) \ {<<".">>, <<".", ".">>}

\* node_modules/{<name>}
OneFilePackages ==
    { << Dir(0, NODE_MODULES), File(1, nm, 1, PlainText) >> : nm \in AllNames }

\* node_modules/{.eslintrc.json, .ESLINTRC.JS}
LintPackage ==
    << Dir(0, NODE_MODULES),
       File(1, <<".", "eslintrc", ".", "json">>, 1, PlainText),
       File(1, <<".", "ESLINTRC", ".", "JS">>, 2, PlainText) >>

\* node_modules/{pkg.js/{LICENSE, index.js}}
DottedDirPackage ==
    << Dir(0, NODE_MODULES),
       Dir(1, <<"pkg", ".", "js">>),
       File(2, <<"LICENSE">>, 1, PlainText),
       File(2, INDEX_JS, 2, PlainText) >>

\* node_modules/{readme.md, foo.ts, .eslintrc.json, index.js, util.js,
\* data.json}: index.js holds an export statement, util.js and data.json
\* have a shorter transformed text
ScenarioPackage ==
    << Dir(0, NODE_MODULES),
       File(1, README, 2, PlainText),
       File(1, <<"foo", ".", "ts">>, 1, PlainText),
       File(1, <<".", "eslintrc", ".", "json">>, 1, PlainText),
       File(1, INDEX_JS, 2,
            [len |-> 2, kw |-> "export ", min |-> 1, compact |-> -1]),
       File(1, <<"util", ".", "js">>, 2,
            [len |-> 2, kw |-> "none", min |-> 1, compact |-> -1]),
       File(1, DATA_JSON, 2,
            [len |-> 2, kw |-> "none", min |-> -1, compact |-> 1]) >>

\* what npm install --omit=dev can leave behind
Packages ==
    DeepPackages \cup SizedPackages \cup OneFilePackages
        \cup {LintPackage, DottedDirPackage, ScenarioPackage, NoTarget}

Nodes(f) == DOMAIN f

RECURSIVE PathOf(_, _)
PathOf(f, n) ==
    IF f[n].parent = 0 THEN f[n].name
    ELSE join(PathOf(f, f[n].parent), f[n].name)

\* the Dirent array of fs.readdir(dir, { withFileTypes: true })
Entries_FilesOnly(f, d) ==
    {n \in Nodes(f) : f[n].parent = d /\ f[n].present /\ ~f[n].isDir}

Entries(f, d) == {n \in Nodes(f) : f[n].parent = d /\ f[n].present}

\* ------------------------------------------------- the walk's decisions

\* processFile's test: ext === EXT_MD || ext === EXT_TS ||
\* ESLINT_FILES.includes(file.name.toLowerCase())
IsDeleted_CaseSensitive(name) ==
    LET ext == extname(name)
    IN ext = EXT_MD \/ ext = EXT_TS \/ name \in ESLINT_FILES

IsDeleted(name) ==
    LET ext == extname(name)
    IN ext = EXT_MD \/ ext = EXT_TS \/ toLowerCase(name) \in ESLINT_FILES

\* the branch processFile and compressFile take for entry e: processFile
\* looks at the extension of file.name, compressFile at that of the full path
Dispatch_NoJsonTest(f, e) ==
    IF IsDeleted(f[e].name) THEN "Delete"
    ELSE LET ext == extname(PathOf(f, e))
         IN IF ext = EXT_JS THEN "CompressJS" ELSE "CompressJSON"

Dispatch(f, e) ==
    IF IsDeleted(f[e].name) THEN "Delete"
    ELSE LET ext == extname(PathOf(f, e))
         IN IF ext = EXT_JS THEN "CompressJS"
            ELSE IF ext = EXT_JSON THEN "CompressJSON"
            ELSE "Skip"

\* result.code.length < originalCode.length,
\* compressedContent.length < originalContent.length
ShouldWrite_OrEqual(newLen, oldLen) == newLen <= oldLen

ShouldWrite(newLen, oldLen) == newLen < oldLen

\* stats.deletedFiles++; stats.spaceFreed += size
StatsAfterDelete_Twice(s, size) ==
    [s EXCEPT !.deletedFiles = @ + 2, !.spaceFreed = @ + size]

StatsAfterDelete(s, size) ==
    [s EXCEPT !.deletedFiles = @ + 1, !.spaceFreed = @ + size]

\* stats.jsFilesCompressed++; stats.spaceSaved += original - result
StatsAfterJs_Assign(s, saved) ==
    [s EXCEPT !.jsFilesCompressed = @ + 1, !.spaceSaved = saved]

StatsAfterJs(s, saved) ==
    [s EXCEPT !.jsFilesCompressed = @ + 1, !.spaceSaved = @ + saved]

\* stats.jsonFilesCompressed++; stats.spaceSaved += original - compressed
StatsAfterJson_JsCounter(s, saved) ==
    [s EXCEPT !.jsFilesCompressed = @ + 1, !.spaceSaved = @ + saved]

StatsAfterJson(s, saved) ==
    [s EXCEPT !.jsonFilesCompressed = @ + 1, !.spaceSaved = @ + saved]

\* the failures that reject processFile: fs.stat is awaited outside any
\* try; unlink has its .catch, readFile is inside compressFile's try, the
\* rest inside the compressors' own try
Escapes_Read(err) == err \in {"stat", "read"}

Escapes(err) == err = "stat"

\* deleteAndCompress: the statement reached after fs.rm / executeCommand
AfterRemove_Continue(ok) == "exec"

AfterRemove(ok) == IF ok THEN "exec" ELSE "summary"

AfterCommand_Continue(ok) == "walk"

AfterCommand(ok) == IF ok THEN "walk" ELSE "summary"

\* ------------------------------------------------------------------- Init

InitialTargets == {NoTarget, LintPackage}

NoFile ==
    [ node |-> 0, class |-> "none", err |-> "none", wrote |-> FALSE,
      before |-> EmptyText ]

Init ==
    /\ pc = "rm"
    /\ fs \in InitialTargets
    /\ stack = <<>>
    /\ stats = stats0
    /\ out = [rm |-> "pending", cmd |-> "pending", walk |-> "pending",
              caught |-> "none", walks |-> 0]
    /\ last = NoFile
    /\ visited = 0
    /\ dispatched = {}
    /\ walkOps = {}
    /\ summaries = 0
    /\ failures = 0
    /\ installed = NoTarget
    /\ written = {}
    /\ inflight = {}

\* ------------------------------------------------------------------ await

\* an operation whose promise is pending
Op(op, n) == [op |-> op, node |-> n]

\* every call the code makes is awaited: the async function is suspended
\* while an operation it started is pending
Blocked_NoAwait == FALSE

Blocked == inflight # {}

\* the awaited operation settles and the function resumes
Settle(op, n) ==
    /\ Op(op, n) \in inflight
    /\ inflight' = inflight \ {Op(op, n)}

\* ----------------------------------------------------------- orchestrator

\* processDirectory(dir) called: a frame whose listing is still to be read
Frame(d) == [dir |-> d, listed |-> FALSE, todo |-> {}]

StartWalk(next) ==
    IF next = "walk"
    THEN /\ stack' = <<Frame(1)>>
         /\ out' = [out EXCEPT !.cmd = "ok", !.walk = "running",
                               !.walks = @ + 1]
    ELSE /\ stack' = stack
         /\ out' = [out EXCEPT !.cmd = "ok"]

\* await fs.rm(dir, { recursive: true })
Remove ==
    /\ pc = "rm"
    /\ Settle("rm", 0)
    /\ \E ok \in BOOLEAN :
        /\ ok => fs # NoTarget
        /\ fs' = IF ok THEN NoTarget ELSE fs
        /\ pc' = AfterRemove(ok)
        /\ out' = IF ok THEN [out EXCEPT !.rm = "ok"]
                  ELSE [out EXCEPT !.rm = "failed", !.caught = "rm"]
        /\ failures' = IF ok THEN failures ELSE failures + 1
    /\ UNCHANGED <<stack, stats, last, visited, dispatched, walkOps,
                   summaries, installed, written>>

\* await executeCommand('npm install --omit=dev'), then the call of
\* processDirectory(dir)
ExecuteCommand ==
    /\ pc = "exec"
    /\ Settle("exec", 0)
    /\ \E ok \in BOOLEAN :
        IF ok
        THEN /\ \E pkg \in Packages : fs' = pkg
             /\ installed' = fs'
             /\ failures' = failures
             /\ pc' = AfterCommand(TRUE)
             /\ StartWalk(AfterCommand(TRUE))
        ELSE /\ fs' = fs
             /\ installed' = installed
             /\ failures' = failures + 1
             /\ pc' = AfterCommand(FALSE)
             /\ IF AfterCommand(FALSE) = "walk"
                THEN /\ stack' = <<Frame(1)>>
                     /\ out' = [out EXCEPT !.cmd = "failed", !.walk = "running",
                                           !.walks = @ + 1]
                ELSE /\ stack' = stack
                     /\ out' = [out EXCEPT !.cmd = "failed", !.caught = "exec"]
    /\ UNCHANGED <<stats, last, visited, dispatched, walkOps, summaries,
                   written>>

\* the .then callback of deleteAndCompress('node_modules'): the summary
SummaryReady_NotAwaited == pc \in {"walk", "summary"}

\* deleteAndCompress returns its promise only after the awaited walk
SummaryReady == pc = "summary"

Summary ==
    /\ SummaryReady
    /\ pc' = "done"
    /\ summaries' = summaries + 1
    /\ UNCHANGED <<fs, stack, stats, out, last, visited, dispatched, walkOps,
                   failures, installed, written, inflight>>

\* ------------------------------------------------------------------- walk

Top == stack[Len(stack)]

Walking == pc = "walk" /\ stack # <<>>

\* an exception leaves every processDirectory frame and is caught by
\* deleteAndCompress
Abort(cause) ==
    /\ pc' = "summary"
    /\ stack' = <<>>
    /\ out' = [out EXCEPT !.walk = "aborted", !.caught = cause]

\* const files = await fs.readdir(dir, { withFileTypes: true })
ReadDir ==
    /\ Walking
    /\ ~Top.listed
    /\ Settle("readdir", Top.dir)
    /\ walkOps' = walkOps \cup {"readdir"}
    /\ \E ok \in BOOLEAN :
        /\ ok => (Top.dir \in Nodes(fs) /\ fs[Top.dir].present)
        /\ failures' = IF ok THEN failures ELSE failures + 1
        /\ IF ok
           THEN /\ stack' = [stack EXCEPT ![Len(stack)] =
                               [@ EXCEPT !.listed = TRUE,
                                         !.todo = Entries(fs, Top.dir)]]
                /\ UNCHANGED <<pc, out>>
           ELSE Abort("readdir")
    /\ UNCHANGED <<fs, stats, last, visited, dispatched, summaries, installed,
                   written>>

\* the loop reaches a directory entry: await processDirectory(fullPath).
\* The order of the listing is the operating system's: any entry still to
\* do can be the next one.
EnterDirectory ==
    /\ Walking
    /\ Top.listed
    /\ ~Blocked
    /\ \E e \in Top.todo :
        /\ fs[e].isDir
        /\ stack' = Append([stack EXCEPT ![Len(stack)] =
                              [@ EXCEPT !.todo = @ \ {e}]], Frame(e))
    /\ UNCHANGED <<pc, fs, stats, out, last, visited, dispatched, walkOps,
                   summaries, failures, installed, written, inflight>>

\* the loop of processDirectory is over: return to the caller
ReturnDirectory ==
    /\ Walking
    /\ Top.listed
    /\ Top.todo = {}
    /\ ~Blocked
    /\ stack' = SubSeq(stack, 1, Len(stack) - 1)
    /\ IF Len(stack) = 1
       THEN /\ pc' = "summary"
            /\ out' = [out EXCEPT !.walk = "finished"]
       ELSE UNCHANGED <<pc, out>>
    /\ UNCHANGED <<fs, stats, last, visited, dispatched, walkOps, summaries,
                   failures, installed, written, inflight>>

\* entry e of the listing is a file of the branch class
IsNext(e, class) ==
    /\ Walking
    /\ Top.listed
    /\ e \in Top.todo
    /\ ~fs[e].isDir
    /\ Dispatch(fs, e) = class
    /\ Settle("processFile", e)

\* what every processFile(file, fullPath) call leaves: the file is
\* dispatched, and either the loop goes on or the error escapes
Dispatched(e, class, err, wrote) ==
    /\ last' = [ node |-> e, class |-> class, err |-> err, wrote |-> wrote,
                 before |-> fs[e].text ]
    /\ visited' = visited + 1
    /\ dispatched' = dispatched \cup {e}
    /\ failures' = IF err = "none" THEN failures ELSE failures + 1
    /\ written' = IF wrote THEN written \cup {e} ELSE written
    /\ installed' = installed
    /\ IF Escapes(err)
       THEN Abort(err)
       ELSE /\ stack' = [stack EXCEPT ![Len(stack)] =
                           [@ EXCEPT !.todo = @ \ {e}]]
            /\ UNCHANGED <<pc, out>>
    /\ UNCHANGED summaries

\* -------------------------------------------------------------- processFile

\* fs.unlink(fullPath) done
unlink_Directory(f, e) == [f EXCEPT ![f[e].parent].present = FALSE]

unlink(f, e) == [f EXCEPT ![e].present = FALSE]

\* the branch of processFile for a file to delete: stat, unlink with its
\* .catch, the log line and the two updates of stats
DeleteFile ==
    \E e \in Nodes(fs) :
        /\ IsNext(e, "Delete")
        /\ \E statOk \in BOOLEAN, unlinkOk \in BOOLEAN :
            IF ~statOk
            THEN /\ walkOps' = walkOps \cup {"stat"}
                 /\ UNCHANGED <<fs, stats>>
                 /\ Dispatched(e, "Delete", "stat", FALSE)
            ELSE /\ walkOps' = walkOps \cup {"stat", "unlink"}
                 /\ fs' = IF unlinkOk THEN unlink(fs, e) ELSE fs
                 /\ stats' = StatsAfterDelete(stats, fs[e].size)
                 /\ Dispatched(e, "Delete",
                               IF unlinkOk THEN "none" ELSE "unlink", FALSE)

\* the text a compressor stores: of the length the transformation gave;
\* what a later minification of it would yield is not fixed by this one
Stored(t, n) ==
    { [len |-> n, kw |-> t.kw, min |-> m, compact |-> IF t.compact = -1
                                                       THEN -1 ELSE n] :
        m \in IF t.compact = -1 THEN 0 .. n ELSE {t.min} }

\* fs.writeFile(filePath, text) of a text of length n over text t: done, or
\* failed before or after the file was truncated
WriteFile(e, t, n, ok) ==
    IF ok
    THEN \E u \in Stored(t, n) :
            fs' = [fs EXCEPT ![e].text = u, ![e].size = n]
    ELSE \E u \in {t, EmptyText} :
            fs' = [fs EXCEPT ![e].text = u, ![e].size = u.len]

\* compressFile reaching compressJavaScriptFile(filePath)
CompressJavaScriptFile ==
    \E e \in Nodes(fs) :
        /\ IsNext(e, "CompressJS")
        /\ \E readOk \in BOOLEAN, writeOk \in BOOLEAN :
            LET originalCode == fs[e].text IN
            IF ~readOk
            THEN /\ walkOps' = walkOps \cup {"readFile"}
                 /\ UNCHANGED <<fs, stats>>
                 /\ Dispatched(e, "CompressJS", "read", FALSE)
            ELSE IF HasModuleKeyword(originalCode)
            THEN /\ walkOps' = walkOps \cup {"readFile"}
                 /\ UNCHANGED <<fs, stats>>
                 /\ Dispatched(e, "CompressJS", "none", FALSE)
            ELSE IF originalCode.min = -1
            THEN /\ walkOps' = walkOps \cup {"readFile"}
                 /\ UNCHANGED <<fs, stats>>
                 /\ Dispatched(e, "CompressJS", "minify", FALSE)
            ELSE IF /\ originalCode.min > 0
                    /\ ShouldWrite(originalCode.min, originalCode.len)
            THEN /\ walkOps' = walkOps \cup {"readFile", "writeFile"}
                 /\ WriteFile(e, originalCode, originalCode.min, writeOk)
                 /\ stats' = IF writeOk
                             THEN StatsAfterJs(stats, originalCode.len
                                                        - originalCode.min)
                             ELSE stats
                 /\ Dispatched(e, "CompressJS",
                               IF writeOk THEN "none" ELSE "write", writeOk)
            ELSE /\ walkOps' = walkOps \cup {"readFile"}
                 /\ UNCHANGED <<fs, stats>>
                 /\ Dispatched(e, "CompressJS", "none", FALSE)

\* compressFile reaching compressJsonFile(filePath)
CompressJsonFile ==
    \E e \in Nodes(fs) :
        /\ IsNext(e, "CompressJSON")
        /\ \E readOk \in BOOLEAN, writeOk \in BOOLEAN :
            LET originalContent == fs[e].text IN
            IF ~readOk
            THEN /\ walkOps' = walkOps \cup {"readFile"}
                 /\ UNCHANGED <<fs, stats>>
                 /\ Dispatched(e, "CompressJSON", "read", FALSE)
            ELSE IF originalContent.compact = -1
            THEN /\ walkOps' = walkOps \cup {"readFile"}
                 /\ UNCHANGED <<fs, stats>>
                 /\ Dispatched(e, "CompressJSON", "parse", FALSE)
            ELSE IF ShouldWrite(originalContent.compact, originalContent.len)
            THEN /\ walkOps' = walkOps \cup {"readFile", "writeFile"}
                 /\ WriteFile(e, originalContent, originalContent.compact,
                              writeOk)
                 /\ stats' = IF writeOk
                             THEN StatsAfterJson(stats, originalContent.len
                                                     - originalContent.compact)
                             ELSE stats
                 /\ Dispatched(e, "CompressJSON",
                               IF writeOk THEN "none" ELSE "write", writeOk)
            ELSE /\ walkOps' = walkOps \cup {"readFile"}
                 /\ UNCHANGED <<fs, stats>>
                 /\ Dispatched(e, "CompressJSON", "none", FALSE)

\* compressFile on any other extension: the log line only
SkipFile ==
    \E e \in Nodes(fs) :
        /\ IsNext(e, "Skip")
        /\ UNCHANGED <<fs, stats, walkOps>>
        /\ Dispatched(e, "Skip", "none", FALSE)

ProcessFile == DeleteFile \/ CompressJavaScriptFile \/ CompressJsonFile
               \/ SkipFile

\* the operations the code can start next: the one of the statement pc is
\* at, the listing of the directory just entered, or processFile on an
\* entry of the loop
NextOps ==
    IF pc = "rm" THEN {Op("rm", 0)}
    ELSE IF pc = "exec" THEN {Op("exec", 0)}
    ELSE IF ~Walking THEN {}
    ELSE IF ~Top.listed THEN {Op("readdir", Top.dir)}
    ELSE {Op("processFile", e) : e \in {n \in Top.todo : ~fs[n].isDir}}

\* the code reaches an await and starts its operation
Call ==
    /\ ~Blocked
    /\ \E o \in NextOps \ inflight : inflight' = inflight \cup {o}
    /\ UNCHANGED <<pc, fs, stack, stats, out, last, visited, dispatched,
                   walkOps, summaries, failures, installed, written>>

Next ==
    \/ Call
    \/ Remove
    \/ ExecuteCommand
    \/ ReadDir
    \/ EnterDirectory
    \/ DeleteFile
    \/ CompressJavaScriptFile
    \/ CompressJsonFile
    \/ SkipFile
    \/ ReturnDirectory
    \/ Summary

Spec == Init /\ [][Next]_vars

\* processDirectory(dir) called a second time, on the tree a first walk
\* without any failure has left, with the same stats object
Rewalk ==
    /\ pc = "summary"
    /\ out.walk = "finished"
    /\ out.walks = 1
    /\ failures = 0
    /\ pc' = "walk"
    /\ stack' = <<Frame(1)>>
    /\ out' = [out EXCEPT !.walk = "running", !.walks = 2]
    /\ last' = NoFile
    /\ visited' = 0
    /\ dispatched' = {}
    /\ walkOps' = {}
    /\ UNCHANGED <<fs, stats, summaries, failures, installed, written,
                   inflight>>

NextRewalk == Next \/ Rewalk

SpecRewalk == Init /\ [][NextRewalk]_vars

TypeOK ==
    /\ pc \in {"rm", "exec", "walk", "summary", "done"}
    /\ visited \in Nat
    /\ summaries \in 0 .. 1
    /\ \A k \in DOMAIN stats : stats[k] \in Nat

\* ================================================================ claims

Sum(s) == s.deletedFiles + s.jsFilesCompressed + s.jsonFilesCompressed

\* the step is a call of processFile on a file of the class
FileStep(class) == visited' = visited + 1 /\ last'.class = class

FilesOf(f) == {n \in Nodes(f) : ~f[n].isDir}

\* C1: a Delete file whose unlink failed leaves deletedFiles and spaceFreed
\* as they were, and the walk goes on with the next entry.
C1_CountedOnlyIfRemoved ==
    [][ (FileStep("Delete") /\ last'.err = "unlink")
            => /\ stats'.deletedFiles = stats.deletedFiles
               /\ stats'.spaceFreed = stats.spaceFreed
               /\ pc' = "walk" ]_vars

\* C2: a run whose removal or reinstall failed never emits the summary.
C2_NoSummaryAfterFatal ==
    (out.rm = "failed" \/ out.cmd = "failed") => summaries = 0

\* C3: the reinstall is invoked only after the removal succeeded, the walk
\* only after both succeeded; after a failed removal or reinstall the walk
\* performs no file system operation and dispatches no file.
C3_StepsInOrder ==
    /\ out.cmd # "pending" => out.rm = "ok"
    /\ out.walk # "pending" => (out.rm = "ok" /\ out.cmd = "ok")
    /\ (out.rm = "failed" \/ out.cmd = "failed")
            => (out.walk = "pending" /\ walkOps = {} /\ visited = 0
                /\ stack = <<>>)
    /\ (walkOps # {} \/ visited > 0) => out.walk # "pending"

C3_Witness == pc = "done" /\ out.rm = "ok" /\ out.cmd = "failed"

\* C4: whatever per-file operations fail, once the walk has ended (no
\* directory listing having failed) every file of the tree was dispatched.
C4_FailureIsolation ==
    (pc \in {"summary", "done"} /\ out.walk \in {"finished", "aborted"}
        /\ out.caught # "readdir")
        => FilesOf(fs) \subseteq dispatched

\* the length of what the compressor of the class makes of text t: -1 when
\* it throws, 0 when there is no code
Transformed(class, t) == IF class = "CompressJS" THEN t.min ELSE t.compact

CompressStep == FileStep("CompressJS") \/ FileStep("CompressJSON")

\* C5: a compressor that did not obtain a strictly shorter, non-empty text
\* (equal, longer, empty, or the transformation failed) leaves the file
\* system and jsFilesCompressed, jsonFilesCompressed, spaceSaved unchanged.
C5_TransactionalOverwrite ==
    [][ CompressStep =>
          LET n == Transformed(last'.class, last'.before)
          IN ~(n > 0 /\ n < last'.before.len)
                => /\ fs' = fs
                   /\ ~last'.wrote
                   /\ stats'.jsFilesCompressed = stats.jsFilesCompressed
                   /\ stats'.jsonFilesCompressed = stats.jsonFilesCompressed
                   /\ stats'.spaceSaved = stats.spaceSaved ]_vars

C5_Witness ==
    /\ last.class = "CompressJSON"
    /\ last.err = "none"
    /\ last.before.compact = last.before.len
    /\ fs[last.node].text = last.before
    /\ "writeFile" \notin walkOps

\* C6: a compressor's read, parse, minify or write failure changes none of
\* the five counters, stays inside compressFile, and the loop goes on with
\* the entries still to do.
C6_CompressFailureContained ==
    [][ (CompressStep /\ last'.err \in {"read", "parse", "minify", "write"})
            => /\ stats' = stats
               /\ pc' = "walk"
               /\ Len(stack') = Len(stack)
               /\ stack'[Len(stack')].todo = Top.todo \ {last'.node} ]_vars

C6_Witness ==
    /\ Walking
    /\ last.class = "CompressJSON"
    /\ last.err = "parse"
    /\ Top.todo # {}

\* the extension as the claim words it: the name from its last dot on, a
\* dot that opens the name not counting
FinalExtension(name) ==
    LET dots == {i \in 2 .. Len(name) : name[i] = "."}
    IN IF dots = {} THEN <<>>
       ELSE LET d == CHOOSE i \in dots : \A j \in dots : j <= i
            IN SubSeq(name, d, Len(name))

Reference(name) ==
    IF \/ FinalExtension(name) \in {EXT_MD, EXT_TS}
       \/ toLowerCase(name) \in ESLINT_FILES
    THEN "Delete"
    ELSE IF FinalExtension(name) = EXT_JS THEN "CompressJS"
    ELSE IF FinalExtension(name) = EXT_JSON THEN "CompressJSON"
    ELSE "Skip"

\* C7: the branch taken for a file is the reference classification of its
\* name: Delete first (extension .md/.ts or lower-cased name a lint file),
\* then CompressJS, then CompressJSON, else Skip.
C7_ClassificationIsReference ==
    last.node # 0 => last.class = Reference(fs[last.node].name)

C7_Witness ==
    /\ last.node # 0
    /\ fs[last.node].name = <<".", "eslintrc", ".", "json">>
    /\ last.class = "Delete"
    /\ "readFile" \notin walkOps

\* C8: deletedFiles + jsFilesCompressed + jsonFilesCompressed never exceeds
\* the number of files visited, and a step adds to it at most the number of
\* files it visits.
C8_CountsBoundedByVisited ==
    /\ [](Sum(stats) <= visited)
    /\ [][ Sum(stats') - Sum(stats) <= visited' - visited ]_vars

C8_Witness == visited = 3 /\ Sum(stats) = 3 /\ stats.deletedFiles = 1

\* C9: a Delete file leaves spaceSaved and the two compressed counters, a
\* CompressJS or CompressJSON file leaves spaceFreed and deletedFiles, a
\* CompressJS file leaves jsonFilesCompressed and a CompressJSON file
\* leaves jsFilesCompressed.
C9_Attribution ==
    [][ /\ FileStep("Delete")
            => /\ stats'.spaceSaved = stats.spaceSaved
               /\ stats'.jsFilesCompressed = stats.jsFilesCompressed
               /\ stats'.jsonFilesCompressed = stats.jsonFilesCompressed
        /\ CompressStep
            => /\ stats'.spaceFreed = stats.spaceFreed
               /\ stats'.deletedFiles = stats.deletedFiles
        /\ FileStep("CompressJS")
            => stats'.jsonFilesCompressed = stats.jsonFilesCompressed
        /\ FileStep("CompressJSON")
            => stats'.jsFilesCompressed = stats.jsFilesCompressed ]_vars

C9_Witness ==
    /\ last.class = "CompressJSON"
    /\ last.wrote
    /\ stats.jsonFilesCompressed = 1
    /\ stats.jsFilesCompressed = 0
    /\ stats.spaceSaved > 0

C11_Scenario ==
    (installed = ScenarioPackage /\ out.walk = "finished" /\ failures = 0)
        => /\ stats.deletedFiles = 3
           /\ stats.jsFilesCompressed = 1
           /\ stats.jsonFilesCompressed = 1
           /\ \A n \in 2 .. 4 : ~fs[n].present
           /\ \A n \in 5 .. 7 : fs[n].present
           /\ fs[5].text = installed[5].text
           /\ fs[6].text.len = installed[6].text.min
           /\ fs[6].text.len < installed[6].text.len
           /\ fs[7].text.len = installed[7].text.compact
           /\ fs[7].text.len < installed[7].text.len

C11_Witness ==
    /\ installed = ScenarioPackage
    /\ pc = "done"
    /\ out.walk = "finished"
    /\ failures = 0
    /\ visited = 6


\* C13: a file whose name the reference classifies Skip is not read, written
\* or unlinked, and none of the five counters changes when it is processed.
C13_SkipUntouched ==
    [][ (visited' = visited + 1 /\ Reference(fs[last'.node].name) = "Skip")
            => /\ last'.class = "Skip"
               /\ fs' = fs
               /\ stats' = stats
               /\ walkOps' = walkOps ]_vars

C13_Witness ==
    /\ last.class = "Skip"
    /\ fs[last.node].name = <<"LICENSE">>
    /\ walkOps = {"readdir"}
    /\ stats = stats0

RECURSIVE SumOver(_, _)
SumOver(S, f) ==
    IF S = {} THEN 0
    ELSE LET n == CHOOSE x \in S : TRUE
         IN f[n] + SumOver(S \ {n}, f)

\* length before minus length after, of every node
Shrunk == [n \in Nodes(fs) |-> installed[n].text.len - fs[n].text.len]

WrittenOf(class) == {n \in written : Dispatch(installed, n) = class}

\* C16: a compressor that replaces a file adds 1 to its own counter and
\* originalLength - newLength to spaceSaved; at every moment spaceSaved is
\* the sum of length before minus length after over the files overwritten
\* and the two counters are the numbers of overwritten files of their kind.
C16_ExactAccounting ==
    /\ [](/\ stats.spaceSaved = SumOver(written, Shrunk)
          /\ stats.jsFilesCompressed = Cardinality(WrittenOf("CompressJS"))
          /\ stats.jsonFilesCompressed
                = Cardinality(WrittenOf("CompressJSON")))
    /\ [][ (visited' = visited + 1 /\ last'.wrote)
            => /\ stats'.spaceSaved = stats.spaceSaved + last'.before.len
                                        - fs'[last'.node].text.len
               /\ stats'.jsFilesCompressed = stats.jsFilesCompressed
                    + (IF last'.class = "CompressJS" THEN 1 ELSE 0)
               /\ stats'.jsonFilesCompressed = stats.jsonFilesCompressed
                    + (IF last'.class = "CompressJSON" THEN 1 ELSE 0) ]_vars

C16_Witness ==
    /\ pc = "done"
    /\ Cardinality(written) = 2
    /\ stats.spaceSaved >= 2
    /\ stats.jsFilesCompressed = 1

Counters == DOMAIN stats0

\* C18: the five counters are never negative and never decrease, and
\* spaceSaved >= jsFilesCompressed + jsonFilesCompressed.
C18_CountersMonotone ==
    /\ [](/\ \A k \in Counters : stats[k] >= 0
          /\ stats.spaceSaved
                >= stats.jsFilesCompressed + stats.jsonFilesCompressed)
    /\ [][ \A k \in Counters : stats'[k] >= stats[k] ]_vars

C18_Witness ==
    /\ stats.jsFilesCompressed = 1
    /\ stats.jsonFilesCompressed = 1
    /\ stats.spaceSaved = 2
    /\ stats.deletedFiles = 1

\* C19: during and after the walk the tree has the nodes that were
\* installed, with their names, parents and kinds; every installed
\* directory is still there and no file is there that was not installed.
C19_WalkFrame ==
    out.walk # "pending"
        => /\ Nodes(fs) = Nodes(installed)
           /\ \A n \in Nodes(fs) :
                /\ fs[n].name = installed[n].name
                /\ fs[n].parent = installed[n].parent
                /\ fs[n].isDir = installed[n].isDir
                /\ fs[n].isDir => fs[n].present = installed[n].present
                /\ fs[n].present => installed[n].present

C19_Witness ==
    /\ out.walk = "finished"
    /\ fs # NoTarget
    /\ fs[1].present
    /\ Entries(fs, 1) = {}
    /\ Cardinality(Entries(installed, 1)) = 2


\* the steps the walk still has to take for node n: one for a file; for a
\* directory the call, the listing, the return and the steps of its entries
RECURSIVE StepsOf(_, _)
StepsOf(f, n) ==
    IF n \notin Nodes(f) THEN 3
    ELSE IF ~f[n].isDir THEN 1
    ELSE 3 + SumOver(Entries(f, n), [c \in Entries(f, n) |-> StepsOf(f, c)])

StepsOfFrame(fr) ==
    IF fr.listed
    THEN 1 + SumOver(fr.todo, [c \in fr.todo |-> StepsOf(fs, c)])
    ELSE StepsOf(fs, fr.dir) - 1

\* twice the steps left in all frames: starting an operation is half a step
StepsLeft ==
    2 * SumOver(DOMAIN stack, [i \in DOMAIN stack |-> StepsOfFrame(stack[i])])
        - Cardinality(inflight)

\* the guard of some step of the walk holds: a pending operation can settle
\* (its action allows the failing outcome in any state), or the loop can
\* start an operation, enter a directory or return
WalkCanStep ==
    /\ stack # <<>>
    /\ IF inflight # {}
       THEN inflight \subseteq NextOps
       ELSE \/ NextOps # {}
            \/ Top.listed /\ Top.todo = {}
            \/ Top.listed /\ \E e \in Top.todo : fs[e].isDir

\* C14: every step of the walk lowers the number of steps left, which is
\* never negative, and the walk is never stuck: it ends.  It is cut short
\* only by a failed operation, and a walk that ran to its end has
\* dispatched every installed file, at any depth, exactly once.
C14_WalkCompletes ==
    /\ [](visited = Cardinality(dispatched))
    /\ [](out.walk = "aborted" => failures > 0)
    /\ [](out.walk = "finished" => dispatched = FilesOf(installed))
    /\ [](pc = "walk" => (StepsLeft >= 0 /\ WalkCanStep))
    /\ [][ pc = "walk" => (pc' # "walk" \/ StepsLeft' < StepsLeft) ]_vars

C14_Witness ==
    /\ out.walk = "finished"
    /\ failures = 0
    /\ Len(installed) = 7
    /\ visited = 3
    /\ dispatched = {3, 5, 6}

\* C15: a run whose removal and reinstall succeeded goes on to the walk and
\* then to the summary, emitted once; when it is emitted no
\* processDirectory frame is left and no operation is pending, and no file
\* is acted on afterwards.
C15_SummaryAfterWalk ==
    /\ [](summaries <= 1)
    /\ [](summaries = 1 => (stack = <<>> /\ inflight = {} /\ pc = "done"))
    /\ [](out.cmd = "ok" => pc \in {"walk", "summary", "done"})
    /\ [](pc = "summary" => (summaries = 0 /\ SummaryReady))
    /\ [](pc = "done" => summaries = 1)
    /\ [][ summaries >= 1
            => (visited' = visited /\ stats' = stats /\ fs' = fs) ]_vars

C15_Witness ==
    /\ summaries = 1
    /\ out.walk = "finished"
    /\ failures >= 2
    /\ visited = 3


\* the transformation of the text stored in n is strictly shorter than it
Shrinkable(n) ==
    LET k == Transformed(Dispatch(fs, n), fs[n].text)
    IN k >= 0 /\ k < fs[n].text.len

CannotShrink == \A n \in written : ~Shrinkable(n)

\* C12: in a second walk over the tree left by a first walk without
\* failure, when no file the first walk compressed can shrink further, no
\* step deletes or rewrites anything and the five counters stay as they
\* were.
C12_SecondWalkIdle ==
    [][ (out.walks = 2 /\ CannotShrink)
            => /\ fs' = fs
               /\ stats' = stats
               /\ written' = written
               /\ visited' = visited + 1
                    => (last'.class # "Delete" /\ ~last'.wrote) ]_vars

C12_Witness ==
    /\ out.walks = 2
    /\ CannotShrink
    /\ last.node \in written
    /\ last.class = "CompressJS"
    /\ last.err = "none"
    /\ fs[last.node].text.len < installed[last.node].text.len

\* C17: at most one operation is pending at any time; an operation is
\* started only when none is pending; when processFile returns nothing is
\* pending, and stats is written only by the one pending processFile.
C17_Sequential ==
    /\ [](Cardinality(inflight) <= 1)
    /\ [][ ~(inflight' \subseteq inflight) => inflight = {} ]_vars
    /\ [][ visited' = visited + 1
            => (inflight = {Op("processFile", last'.node)}
                /\ inflight' = {}) ]_vars
    /\ [][ stats' # stats => visited' = visited + 1 ]_vars

C17_Witness ==
    /\ visited = 2
    /\ \E e \in Nodes(fs) :
        /\ inflight = {Op("processFile", e)}
        /\ e \notin dispatched

====
